---- MODULE Spec2Model ----
(***************************************************************************)
(* Verification model of the daily-research-bot scripts.                   *)
(*                                                                         *)
(*   Spec          index.js: harvest, chunked processing, volumes          *)
(*   SpecThrow     index.js, where processWebpage may also reject          *)
(*   FairSpec      index.js with weak fairness (the event loop runs every  *)
(*                 pending continuation)                                   *)
(*   SpecScraper   scraper.js: the enforcement loop, weakly fair           *)
(*   SpecValidator part_002: the strict validator's download loop          *)
(*   SpecStealth   stealth_search.js: stealthSearch and its engines          *)
(*   FairSpecStealth  the same with weak fairness                            *)
(*   SpecScroll    stealth_search.js: scrollForMoreResults                   *)
(*   SpecPdf       index.js: processPDF applied to one response              *)
(*   SpecMiner     part_001: processLink of the Puppeteer text miner         *)
(*                                                                         *)
(* Each specification runs one script; the variables of the other scripts  *)
(* stay at their "off" values.                                             *)
(***************************************************************************)
EXTENDS Integers, Sequences, FiniteSets, TLC

\* ------------------------------------------------------------------------
\* Bounds of the model
\* ------------------------------------------------------------------------
MaxResults == 2
MaxTarget == 4
MaxDocsPerFile == 2

\* ------------------------------------------------------------------------
\* Program constants
\* ------------------------------------------------------------------------
CONCURRENCY == 3
MIN_WORDS == 200

\* ------------------------------------------------------------------------
\* Links
\* ------------------------------------------------------------------------
\* One link per class that processLink distinguishes: a URL ending in .pdf,
\* a URL that only might be a PDF, and a plain web page.  mightBePdf is
\* read in 'pdfs' mode only, where its URL patterns ('/pdf/', 'doi.org',
\* 'academia.edu', ...) all select the same branch.
LinkUniverse ==
    { "https://a.org/p1.pdf", "https://doi.org/3", "https://b.org/4" }

isDefinitePdf(link) == link \in { "https://a.org/p1.pdf" }

mightBePdf(link, contentType) ==
    link \in { "https://doi.org/3" } /\ contentType = "pdfs"

SeqsUpTo(S, n) == UNION { [1..k -> S] : k \in 0..n }

NoDuplicates(s) == \A a, b \in 1..Len(s) : s[a] = s[b] => a = b

Includes(s, x) == \E a \in 1..Len(s) : s[a] = x

RECURSIVE PushUnique(_, _)
PushUnique(collected, ls) ==
    IF ls = <<>> THEN collected
    ELSE PushUnique(IF Includes(collected, Head(ls)) THEN collected
                    ELSE Append(collected, Head(ls)), Tail(ls))

Slice(s, from, to) ==
    [a \in 1..((IF to < Len(s) THEN to ELSE Len(s)) - from) |-> s[from + a]]

VARIABLES
    CONTENT_TYPE, TARGET_DOCS, DOCS_PER_FILE,
    pc, strategy, collectedLinks, browserOpen, exitCode,
    linksArray, i, processedCount, successCount, currentVolume,
    currentSources, volumes, tasks, openContexts,
    \* scraper.js
    TARGET_PER_TOPIC, topicsLeft, spc, downloadedCount, pageNum,
    consecutiveFailures, candidates, filesFoundOnPage,
    \* part_002 (strict validator)
    TARGET_COUNT, uniqueLinks, vpc, validCount, attemptIndex, topicDir,
    counted, methods,
    \* stealth_search.js: stealthSearch and the engine function it awaits
    sMaxLinks, links, engine, stpc, contextOpen, contextCloses, queries,
    engineMaxLinks, engineLinks, enginePageNum, epc, pagesOpen, clicks,
    nextButton,
    \* stealth_search.js: scrollForMoreResults
    scrollCount, scrollI, bodyHeight, previousHeight, newHeight, scrolls,
    scpc,
    \* index.js: processPDF on its own
    pdfUrl, pdfResponse, pdfReturn, ppc,
    \* part_001 (Puppeteer text miner): processLink
    mLink, mResponse, mpc, mPage, pagesOpened, closeCalls, mResult

scraperVars ==
    <<TARGET_PER_TOPIC, topicsLeft, spc, downloadedCount, pageNum,
      consecutiveFailures, candidates, filesFoundOnPage>>
validatorVars ==
    <<TARGET_COUNT, uniqueLinks, vpc, validCount, attemptIndex, topicDir,
      counted, methods>>
stealthVars ==
    <<sMaxLinks, links, engine, stpc, contextOpen, contextCloses, queries,
      engineMaxLinks, engineLinks, enginePageNum, epc, pagesOpen, clicks,
      nextButton>>
scrollVars ==
    <<scrollCount, scrollI, bodyHeight, previousHeight, newHeight, scrolls,
      scpc>>
pdfVars == <<pdfUrl, pdfResponse, pdfReturn, ppc>>
minerVars ==
    <<mLink, mResponse, mpc, mPage, pagesOpened, closeCalls, mResult>>
unitVars == <<stealthVars, scrollVars, pdfVars, minerVars>>
otherVars == <<scraperVars, validatorVars, unitVars>>
config == <<CONTENT_TYPE, TARGET_DOCS, DOCS_PER_FILE>>
counters == <<processedCount, successCount, currentVolume, currentSources>>
loopVars == <<linksArray, i, processedCount, successCount, currentVolume,
              currentSources, volumes, tasks, openContexts>>
vars == <<CONTENT_TYPE, TARGET_DOCS, DOCS_PER_FILE,
          pc, strategy, collectedLinks, browserOpen, exitCode,
          linksArray, i, processedCount, successCount, currentVolume,
          currentSources, volumes, tasks, openContexts,
          scraperVars, validatorVars, unitVars>>
indexVars == <<config, pc, strategy, collectedLinks, browserOpen, exitCode,
               loopVars>>

\* ------------------------------------------------------------------------
\* Text extraction and documents (index.js)
\* ------------------------------------------------------------------------
\* A text is abstracted to what the validators look at: the number of words
\* that survive sanitizeContent (clean), the number of words it strips
\* (noise: citation markers, garbled tokens), whether the text contains one
\* of the bot-challenge phrases (marker) and the word 'security'.
PdfTexts ==
    [clean : {MIN_WORDS - 1, MIN_WORDS}, noise : {0, 1},
     marker : {FALSE}, security : {FALSE}]

WebTexts ==
    [clean : {99, MIN_WORDS - 1, MIN_WORDS}, noise : {0, 1},
     marker : BOOLEAN, security : BOOLEAN]

NoText == [clean |-> 0, noise |-> 0, marker |-> FALSE, security |-> FALSE]

countWords(text) == text.clean + text.noise

sanitizeContent(text) == [text EXCEPT !.noise = 0]

\* the value null
Null == [type |-> "null", url |-> "", id |-> 0, wordCount |-> 0]

\* id stands for the identity of the object that formatOutput returns
formatOutput(type, url, content, id) ==
    [type |-> type, url |-> url, id |-> id,
     wordCount |-> countWords(sanitizeContent(content))]

NoPdfResponse ==
    [error |-> TRUE, ctPdf |-> FALSE, len |-> 0, parseError |-> FALSE,
     text |-> NoText]

\* what axios.get and pdf-parse can answer for a URL: a network error, or a
\* body of some length and Content-Type that pdf-parse rejects or turns
\* into a text
PdfResponses ==
    { NoPdfResponse }
    \cup [error : {FALSE}, ctPdf : BOOLEAN, len : {9999, 10000, 49999, 50000},
          parseError : {TRUE}, text : {NoText}]
    \cup [error : {FALSE}, ctPdf : BOOLEAN, len : {9999, 10000, 49999, 50000},
          parseError : {FALSE}, text : PdfTexts]

\* mutant: the test on the body length of 10000 bytes is left out
processPDFNoFloor(url, response, id) ==
    IF response.error THEN Null
    ELSE IF ~response.ctPdf /\ response.len < 50000 THEN Null
    ELSE IF response.parseError THEN Null
    ELSE IF countWords(response.text) >= MIN_WORDS
         THEN formatOutput("PDF", url, response.text, id)
         ELSE Null

processPDF(url, response, id) ==
    IF response.error THEN Null
    ELSE IF ~response.ctPdf /\ response.len < 50000 THEN Null
    ELSE IF response.len < 10000 THEN Null
    ELSE IF response.parseError THEN Null
    ELSE IF countWords(response.text) >= MIN_WORDS
         THEN formatOutput("PDF", url, response.text, id)
         ELSE Null

\* what page.goto and the rendered page can answer for a URL
WebResponses ==
    { [kind |-> k, pdf |-> NoPdfResponse, text |-> NoText] :
          k \in {"error", "noResponse"} }
    \cup { [kind |-> "pdf", pdf |-> p, text |-> NoText] : p \in PdfResponses }
    \cup { [kind |-> "html", pdf |-> NoPdfResponse, text |-> t] : t \in WebTexts }

processWebpage(url, response, id) ==
    IF response.kind = "error" THEN Null
    ELSE IF response.kind = "noResponse" THEN Null
    ELSE IF response.kind = "pdf" THEN processPDF(url, response.pdf, id)
    ELSE LET wordCount == countWords(response.text)
             isBotBlocked ==
                 \/ response.text.marker
                 \/ (wordCount < 100 /\ response.text.security)
         IN  IF isBotBlocked THEN Null
             ELSE IF wordCount >= MIN_WORDS
                  THEN formatOutput("WEB", url, response.text, id)
                  ELSE Null

\* ------------------------------------------------------------------------
\* Harvest (index.js main, step 1)
\* ------------------------------------------------------------------------
AnyResults == SeqsUpTo(LinkUniverse, MaxResults)

UniqueResults == { s \in AnyResults : NoDuplicates(s) }

Ceil2(n) == (n + 1) \div 2

\* papers of the API answer, in any number and order
searchSemanticScholar(maxLinks) == AnyResults

\* every entry becomes https://arxiv.org/pdf/<id>.pdf
searchArXiv(maxLinks) ==
    { s \in AnyResults : \A a \in 1..Len(s) : isDefinitePdf(s[a]) }

searchGoogleScholar(maxLinks) ==
    { s \in UniqueResults : Len(s) <= maxLinks }

searchGooglePDF(maxLinks) ==
    { s \in UniqueResults : Len(s) <= maxLinks }

\* every result becomes https://en.wikipedia.org/wiki/<title>
searchWikipedia(maxLinks) ==
    { s \in AnyResults :
        \A a \in 1..Len(s) :
            ~isDefinitePdf(s[a]) /\ ~mightBePdf(s[a], "pdfs") }

searchRSSFeeds(maxLinks) ==
    { s \in UniqueResults : Len(s) <= maxLinks }

searchWithBrowser(maxLinks) == UniqueResults

\* A processLink call: where it is suspended (st), whether the browser
\* fallback follows a failed processPDF (fallback), what it settles with
\* (res), and whether it settles by rejecting (rejected).
IdleTask ==
    [st |-> "idle", fallback |-> FALSE, res |-> Null, rejected |-> FALSE]

IndexInit ==
    /\ CONTENT_TYPE \in {"pdfs", "both"}
    /\ TARGET_DOCS \in 1..MaxTarget
    /\ DOCS_PER_FILE \in 1..MaxDocsPerFile
    /\ pc = "harvest"
    /\ strategy = 1
    /\ collectedLinks = <<>>
    /\ browserOpen = TRUE
    /\ exitCode = 0
    /\ linksArray = <<>>
    /\ i = 0
    /\ processedCount = 0
    /\ successCount = 0
    /\ currentVolume = 1
    /\ currentSources = <<>>
    /\ volumes = <<>>
    /\ tasks = <<>>
    /\ openContexts = {}

\* mutant: every strategy is invoked, whatever the number of links
HarvestStepUnguarded(mode, n, guarded, results, unique) ==
    /\ CONTENT_TYPE = mode
    /\ strategy = n
    /\ \/ /\ pc = "harvest"
          /\ pc' = "search"
          /\ UNCHANGED <<strategy, collectedLinks>>
       \/ /\ pc = "search"
          /\ \E ls \in results :
                collectedLinks' = IF unique THEN PushUnique(collectedLinks, ls)
                                  ELSE collectedLinks \o ls
          /\ strategy' = n + 1
          /\ pc' = "harvest"
    /\ UNCHANGED <<otherVars, config, browserOpen, exitCode, loopVars>>

\* one harvest strategy: the n-th of the mode, guarded by the target unless
\* it is the first; main is suspended (pc = "search") while the search
\* function runs, and merges its results with or without the includes() test
HarvestStep(mode, n, guarded, results, unique) ==
    /\ CONTENT_TYPE = mode
    /\ strategy = n
    /\ \/ /\ pc = "harvest"
          /\ IF guarded /\ ~(Len(collectedLinks) < TARGET_DOCS)
             THEN strategy' = n + 1 /\ pc' = pc
             ELSE strategy' = n /\ pc' = "search"
          /\ UNCHANGED collectedLinks
       \/ /\ pc = "search"
          /\ \E ls \in results :
                collectedLinks' = IF unique THEN PushUnique(collectedLinks, ls)
                                  ELSE collectedLinks \o ls
          /\ strategy' = n + 1
          /\ pc' = "harvest"
    /\ UNCHANGED <<otherVars, config, browserOpen, exitCode, loopVars>>

HarvestSemanticScholar ==
    HarvestStep("pdfs", 1, FALSE, searchSemanticScholar(Ceil2(TARGET_DOCS)), TRUE)

HarvestArXiv ==
    HarvestStep("pdfs", 2, TRUE,
                searchArXiv(TARGET_DOCS - Len(collectedLinks)), TRUE)

HarvestGoogleScholar ==
    HarvestStep("pdfs", 3, TRUE,
                searchGoogleScholar(TARGET_DOCS - Len(collectedLinks)), TRUE)

HarvestGooglePDF ==
    HarvestStep("pdfs", 4, TRUE,
                searchGooglePDF(TARGET_DOCS - Len(collectedLinks)), TRUE)

HarvestBrowserPdf ==
    HarvestStep("pdfs", 5, TRUE,
                searchWithBrowser(TARGET_DOCS - Len(collectedLinks)), TRUE)

HarvestWikipedia ==
    HarvestStep("both", 1, FALSE, searchWikipedia(Ceil2(TARGET_DOCS)), FALSE)

HarvestRSS ==
    HarvestStep("both", 2, TRUE,
                searchRSSFeeds(TARGET_DOCS - Len(collectedLinks)), TRUE)

HarvestBrowser ==
    HarvestStep("both", 3, TRUE,
                searchWithBrowser(TARGET_DOCS - Len(collectedLinks)), TRUE)

LastStrategy == IF CONTENT_TYPE = "pdfs" THEN 5 ELSE 3

\* "Harvest Complete": the zero-links test, then the slice to TARGET_DOCS
HarvestComplete ==
    /\ pc = "harvest"
    /\ strategy = LastStrategy + 1
    /\ IF Len(collectedLinks) = 0
       THEN /\ pc' = "noLinks"
            /\ UNCHANGED <<linksArray, tasks>>
       ELSE /\ pc' = "loop"
            /\ linksArray' = Slice(collectedLinks, 0, TARGET_DOCS)
            /\ tasks' = [k \in 1..Len(linksArray') |-> IdleTask]
    /\ UNCHANGED <<otherVars, config, strategy, collectedLinks, browserOpen, exitCode,
                   i, counters, volumes, openContexts>>

\* await browser.close() of the zero-links branch
NoLinksCloseBrowser ==
    /\ pc = "noLinks"
    /\ browserOpen' = FALSE
    /\ pc' = "exit"
    /\ UNCHANGED <<otherVars, config, strategy, collectedLinks, exitCode, loopVars>>

\* process.exit(1)
ProcessExit ==
    /\ pc = "exit"
    /\ exitCode' = 1
    /\ pc' = "exited"
    /\ UNCHANGED <<otherVars, config, strategy, collectedLinks, browserOpen, loopVars>>

\* ------------------------------------------------------------------------
\* Processing (index.js main, step 2)
\* ------------------------------------------------------------------------
ChunkOf(from) ==
    { k \in 1..Len(linksArray) : from < k /\ k <= from + CONCURRENCY }

InFlight(k) == tasks[k].st \notin {"idle", "settled"}

\* processLink up to its first await
processLinkStart(link, contentType) ==
    IF isDefinitePdf(link)
    THEN [IdleTask EXCEPT !.st = "pdf"]
    ELSE IF contentType = "pdfs"
         THEN IF mightBePdf(link, contentType)
              THEN [IdleTask EXCEPT !.st = "pdf", !.fallback = TRUE]
              ELSE [IdleTask EXCEPT !.st = "settled"]
         ELSE [IdleTask EXCEPT !.st = "newContext"]

\* chunk.map(link => processLink(...)): every call of the chunk is started
StartChunk ==
    /\ pc = "loop"
    /\ i < Len(linksArray)
    /\ tasks' = [k \in 1..Len(linksArray) |->
                    IF k \in ChunkOf(i)
                    THEN processLinkStart(linksArray[k], CONTENT_TYPE)
                    ELSE tasks[k]]
    /\ pc' = "await"
    /\ UNCHANGED <<otherVars, config, strategy, collectedLinks, browserOpen, exitCode,
                   linksArray, i, counters, volumes, openContexts>>

\* mutant: processLink counts its own success in the shared counter
PdfSettleCounting(k) ==
    /\ tasks[k].st = "pdf"
    /\ \E response \in PdfResponses :
          LET pdfResult == processPDF(linksArray[k], response, k)
          IN  /\ tasks' = [tasks EXCEPT ![k] =
                     IF pdfResult # Null \/ ~tasks[k].fallback
                     THEN [@ EXCEPT !.st = "settled", !.res = pdfResult]
                     ELSE [@ EXCEPT !.st = "newContext"]]
              /\ successCount' = IF pdfResult # Null THEN successCount + 1
                                 ELSE successCount
    /\ UNCHANGED <<otherVars, config, pc, strategy, collectedLinks, browserOpen,
                   exitCode, linksArray, i, processedCount, currentVolume,
                   currentSources, volumes, openContexts>>

\* await processPDF(link) returns inside processLink
PdfSettle(k) ==
    /\ tasks[k].st = "pdf"
    /\ \E response \in PdfResponses :
          LET pdfResult == processPDF(linksArray[k], response, k)
          IN  tasks' = [tasks EXCEPT ![k] =
                  IF pdfResult # Null \/ ~tasks[k].fallback
                  THEN [@ EXCEPT !.st = "settled", !.res = pdfResult]
                  ELSE [@ EXCEPT !.st = "newContext"]]
    /\ UNCHANGED <<otherVars, config, pc, strategy, collectedLinks, browserOpen,
                   exitCode, linksArray, i, counters, volumes, openContexts>>

\* browser.newContext() and context.newPage()
NewContext(k) ==
    /\ tasks[k].st = "newContext"
    /\ openContexts' = openContexts \cup {k}
    /\ tasks' = [tasks EXCEPT ![k].st = "web"]
    /\ UNCHANGED <<otherVars, config, pc, strategy, collectedLinks, browserOpen,
                   exitCode, linksArray, i, counters, volumes>>

\* await processWebpage(link, page, contentType) returns
WebpageReturns(k) ==
    /\ tasks[k].st = "web"
    /\ \E response \in WebResponses :
          tasks' = [tasks EXCEPT ![k] =
              [@ EXCEPT !.st = "finally",
                        !.res = processWebpage(linksArray[k], response, k)]]
    /\ UNCHANGED <<otherVars, config, pc, strategy, collectedLinks, browserOpen,
                   exitCode, linksArray, i, counters, volumes, openContexts>>

\* processWebpage rejects: its catch handler reads e.message.substring of a
\* thrown value that has no message
WebpageThrows(k) ==
    /\ tasks[k].st = "web"
    /\ tasks' = [tasks EXCEPT ![k] = [@ EXCEPT !.st = "finally",
                                               !.rejected = TRUE]]
    /\ UNCHANGED <<otherVars, config, pc, strategy, collectedLinks, browserOpen,
                   exitCode, linksArray, i, counters, volumes, openContexts>>

\* mutant: context.close() after the return value only, without finally
ContextCloseWithoutFinally(k) ==
    /\ tasks[k].st = "finally"
    /\ openContexts' = IF tasks[k].rejected THEN openContexts
                       ELSE openContexts \ {k}
    /\ tasks' = [tasks EXCEPT ![k].st = "settled"]
    /\ UNCHANGED <<otherVars, config, pc, strategy, collectedLinks, browserOpen,
                   exitCode, linksArray, i, counters, volumes>>

\* finally { await context.close() }, then processLink settles
ContextClose(k) ==
    /\ tasks[k].st = "finally"
    /\ openContexts' = openContexts \ {k}
    /\ tasks' = [tasks EXCEPT ![k].st = "settled"]
    /\ UNCHANGED <<otherVars, config, pc, strategy, collectedLinks, browserOpen,
                   exitCode, linksArray, i, counters, volumes>>

RECURSIVE PushResults(_, _, _)
\* for (const res of results) { if (res) currentSources.push(res) }
PushResults(sources, from, to) ==
    IF from > to THEN sources
    ELSE PushResults(IF tasks[from].res # Null
                     THEN Append(sources, tasks[from].res) ELSE sources,
                     from + 1, to)

\* mutant: the loop resumes at the first settled promise (Promise.race)
AnySettled(chunk) == \E k \in chunk : tasks[k].st = "settled"

\* Promise.all(promises) is fulfilled once every promise of the chunk is
AllSettled(chunk) == \A k \in chunk : tasks[k].st = "settled"

ShouldFlush(count, docsPerFile, sources) ==
    count > 0 /\ count % docsPerFile = 0 /\ Len(sources) > 0

\* mutant: processedCount++ moved inside if (res)
ResolveChunkCountsSuccessesOnly ==
    /\ pc = "await"
    /\ AllSettled(ChunkOf(i))
    /\ \A k \in ChunkOf(i) : ~tasks[k].rejected
    /\ LET last == IF i + CONCURRENCY < Len(linksArray)
                   THEN i + CONCURRENCY ELSE Len(linksArray)
           sources == PushResults(currentSources, i + 1, last)
           count == successCount + (Len(sources) - Len(currentSources))
       IN  /\ processedCount' =
                  processedCount + (Len(sources) - Len(currentSources))
           /\ currentSources' = sources
           /\ successCount' = count
           /\ IF ShouldFlush(count, DOCS_PER_FILE, sources)
              THEN pc' = "flush" /\ i' = i
              ELSE pc' = "loop" /\ i' = i + CONCURRENCY
    /\ UNCHANGED <<otherVars, config, strategy, collectedLinks, browserOpen, exitCode,
                   linksArray, currentVolume, volumes, tasks, openContexts>>

\* the chunk's results are counted and buffered, then the batch test
ResolveChunk ==
    /\ pc = "await"
    /\ AllSettled(ChunkOf(i))
    /\ \A k \in ChunkOf(i) : ~tasks[k].rejected
    /\ LET last == IF i + CONCURRENCY < Len(linksArray)
                   THEN i + CONCURRENCY ELSE Len(linksArray)
           sources == PushResults(currentSources, i + 1, last)
           count == successCount + (Len(sources) - Len(currentSources))
       IN  /\ processedCount' = processedCount + (last - i)
           /\ currentSources' = sources
           /\ successCount' = count
           /\ IF ShouldFlush(count, DOCS_PER_FILE, sources)
              THEN pc' = "flush" /\ i' = i
              ELSE pc' = "loop" /\ i' = i + CONCURRENCY
    /\ UNCHANGED <<otherVars, config, strategy, collectedLinks, browserOpen, exitCode,
                   linksArray, currentVolume, volumes, tasks, openContexts>>

\* Promise.all rejects as soon as one promise does; nothing catches it
ChunkRejects ==
    /\ pc = "await"
    /\ \E k \in ChunkOf(i) : tasks[k].st = "settled" /\ tasks[k].rejected
    /\ pc' = "crashed"
    /\ UNCHANGED <<otherVars, config, strategy, collectedLinks, browserOpen, exitCode,
                   loopVars>>

generateResearchPDF(volNum, sources) ==
    Append(volumes, [volNum |-> volNum, sources |-> sources])

\* mutant: the volume number is not advanced after a volume is written
FlushVolumeSameNumber ==
    /\ pc = "flush"
    /\ volumes' = generateResearchPDF(currentVolume, currentSources)
    /\ currentVolume' = currentVolume
    /\ currentSources' = <<>>
    /\ i' = i + CONCURRENCY
    /\ pc' = "loop"
    /\ UNCHANGED <<otherVars, config, strategy, collectedLinks, browserOpen, exitCode,
                   linksArray, processedCount, successCount, tasks,
                   openContexts>>

\* await generateResearchPDF(...); currentVolume++; currentSources = []
FlushVolume ==
    /\ pc = "flush"
    /\ volumes' = generateResearchPDF(currentVolume, currentSources)
    /\ currentVolume' = currentVolume + 1
    /\ currentSources' = <<>>
    /\ i' = i + CONCURRENCY
    /\ pc' = "loop"
    /\ UNCHANGED <<otherVars, config, strategy, collectedLinks, browserOpen, exitCode,
                   linksArray, processedCount, successCount, tasks,
                   openContexts>>

\* mutant: the buffer left after the loop is not written
FinalVolumeSkipped ==
    /\ pc = "loop"
    /\ ~(i < Len(linksArray))
    /\ pc' = "close"
    /\ UNCHANGED <<otherVars, config, strategy, collectedLinks, browserOpen, exitCode,
                   linksArray, i, counters, volumes, tasks, openContexts>>

\* after the loop: the rest of the buffer becomes the last volume
FinalVolume ==
    /\ pc = "loop"
    /\ ~(i < Len(linksArray))
    /\ IF Len(currentSources) > 0
       THEN volumes' = generateResearchPDF(currentVolume, currentSources)
       ELSE UNCHANGED volumes
    /\ pc' = "close"
    /\ UNCHANGED <<otherVars, config, strategy, collectedLinks, browserOpen, exitCode,
                   linksArray, i, counters, tasks, openContexts>>

\* mutant: a run without any extracted document ends in process.exit(1)
JobCompleteExitsOnNoDocs ==
    /\ pc = "close"
    /\ browserOpen' = FALSE
    /\ IF successCount = 0
       THEN pc' = "exited" /\ exitCode' = 1
       ELSE pc' = "done" /\ exitCode' = exitCode
    /\ UNCHANGED <<otherVars, config, strategy, collectedLinks, loopVars>>

\* await browser.close(); "JOB COMPLETE"
JobComplete ==
    /\ pc = "close"
    /\ browserOpen' = FALSE
    /\ pc' = "done"
    /\ UNCHANGED <<otherVars, config, strategy, collectedLinks, exitCode, loopVars>>

\* the index.js run has not been started
IndexOff ==
    /\ CONTENT_TYPE = "both"
    /\ TARGET_DOCS = 1
    /\ DOCS_PER_FILE = 1
    /\ pc = "off"
    /\ strategy = 1
    /\ collectedLinks = <<>>
    /\ browserOpen = FALSE
    /\ exitCode = 0
    /\ linksArray = <<>>
    /\ i = 0
    /\ processedCount = 0
    /\ successCount = 0
    /\ currentVolume = 1
    /\ currentSources = <<>>
    /\ volumes = <<>>
    /\ tasks = <<>>
    /\ openContexts = {}

\* ------------------------------------------------------------------------
\* scraper.js: the enforcement loop
\* ------------------------------------------------------------------------
MaxTargetPerTopic == 3
MaxTopics == 2
MaxCandidates == 2
MaxConsecutiveFailures == 5

\* what https.get can answer for a candidate link
DownloadResponses ==
    { [kind |-> k, statusCode |-> 0, isPdf |-> FALSE, size |-> 0] :
          k \in {"throws", "error", "timeout"} }
    \cup [kind : {"response"}, statusCode : {200, 404}, isPdf : BOOLEAN,
          size : {1000, 1001}]

\* resolves true only for a 200 answer that is a PDF by Content-Type or by
\* URL suffix and that left more than 1000 bytes on disk
verifyAndDownload(response) ==
    /\ response.kind = "response"
    /\ response.statusCode = 200
    /\ response.isPdf
    /\ response.size > 1000

\* the links of a result page: only whether each starts with 'http' matters
CandidateLists == SeqsUpTo({"http", "junk"}, MaxCandidates)

ScraperOff ==
    /\ TARGET_PER_TOPIC = 1
    /\ topicsLeft = 0
    /\ spc = "off"
    /\ downloadedCount = 0
    /\ pageNum = 1
    /\ consecutiveFailures = 0
    /\ candidates = <<>>
    /\ filesFoundOnPage = 0

\* the first topic is at the head of its enforcement loop
ScraperInit ==
    /\ TARGET_PER_TOPIC \in 1..MaxTargetPerTopic
    /\ topicsLeft \in 1..MaxTopics
    /\ spc = "loop"
    /\ downloadedCount = 0
    /\ pageNum = 1
    /\ consecutiveFailures = 0
    /\ candidates = <<>>
    /\ filesFoundOnPage = 0

LoopGuard(count, failures) ==
    count < TARGET_PER_TOPIC /\ failures < MaxConsecutiveFailures

\* page.goto or page.evaluate throws: catch (err) { consecutiveFailures++ }
PageError ==
    /\ spc = "loop"
    /\ LoopGuard(downloadedCount, consecutiveFailures)
    /\ consecutiveFailures' = consecutiveFailures + 1
    /\ UNCHANGED <<indexVars, validatorVars, unitVars, TARGET_PER_TOPIC, topicsLeft,
                   spc, downloadedCount, pageNum, candidates,
                   filesFoundOnPage>>

\* candidates.length === 0
NoResults ==
    /\ spc = "loop"
    /\ LoopGuard(downloadedCount, consecutiveFailures)
    /\ consecutiveFailures' = consecutiveFailures + 1
    /\ pageNum' = pageNum + 1
    /\ UNCHANGED <<indexVars, validatorVars, unitVars, TARGET_PER_TOPIC, topicsLeft,
                   spc, downloadedCount, candidates, filesFoundOnPage>>

\* the page has result links: let filesFoundOnPage = 0 and enter the for loop
PageResults ==
    /\ spc = "loop"
    /\ LoopGuard(downloadedCount, consecutiveFailures)
    /\ \E c \in CandidateLists \ {<<>>} : candidates' = c
    /\ filesFoundOnPage' = 0
    /\ spc' = "links"
    /\ UNCHANGED <<indexVars, validatorVars, unitVars, TARGET_PER_TOPIC, topicsLeft,
                   downloadedCount, pageNum, consecutiveFailures>>

\* one iteration of for (const link of candidates)
TryLink ==
    /\ spc = "links"
    /\ candidates # <<>>
    /\ IF downloadedCount >= TARGET_PER_TOPIC
       THEN /\ candidates' = <<>>
            /\ UNCHANGED <<downloadedCount, filesFoundOnPage>>
       ELSE /\ candidates' = Tail(candidates)
            /\ IF Head(candidates) = "junk"
               THEN UNCHANGED <<downloadedCount, filesFoundOnPage>>
               ELSE \E response \in DownloadResponses :
                       IF verifyAndDownload(response)
                       THEN /\ downloadedCount' = downloadedCount + 1
                            /\ filesFoundOnPage' = filesFoundOnPage + 1
                       ELSE UNCHANGED <<downloadedCount, filesFoundOnPage>>
    /\ UNCHANGED <<indexVars, validatorVars, unitVars, TARGET_PER_TOPIC, topicsLeft,
                   spc, pageNum, consecutiveFailures>>

\* mutant: the failure count is never reset
EndOfPageWithoutReset ==
    /\ spc = "links"
    /\ candidates = <<>>
    /\ consecutiveFailures' = IF filesFoundOnPage = 0
                              THEN consecutiveFailures + 1
                              ELSE consecutiveFailures
    /\ pageNum' = pageNum + 1
    /\ spc' = "loop"
    /\ UNCHANGED <<indexVars, validatorVars, unitVars, TARGET_PER_TOPIC, topicsLeft,
                   downloadedCount, candidates, filesFoundOnPage>>

\* after the for loop: count or reset the failures, next page
EndOfPage ==
    /\ spc = "links"
    /\ candidates = <<>>
    /\ consecutiveFailures' = IF filesFoundOnPage = 0
                              THEN consecutiveFailures + 1
                              ELSE 0
    /\ pageNum' = pageNum + 1
    /\ spc' = "loop"
    /\ UNCHANGED <<indexVars, validatorVars, unitVars, TARGET_PER_TOPIC, topicsLeft,
                   downloadedCount, candidates, filesFoundOnPage>>

\* the while condition is false
LoopStops ==
    /\ spc = "loop"
    /\ ~LoopGuard(downloadedCount, consecutiveFailures)
    /\ spc' = "stopped"
    /\ UNCHANGED <<indexVars, validatorVars, unitVars, TARGET_PER_TOPIC, topicsLeft,
                   downloadedCount, pageNum, consecutiveFailures, candidates,
                   filesFoundOnPage>>

\* page.close(), then the next topic with fresh counters, or browser.close()
NextTopic ==
    /\ spc = "stopped"
    /\ topicsLeft' = topicsLeft - 1
    /\ IF topicsLeft > 1
       THEN /\ spc' = "loop"
            /\ downloadedCount' = 0
            /\ pageNum' = 1
            /\ consecutiveFailures' = 0
       ELSE /\ spc' = "closed"
            /\ UNCHANGED <<downloadedCount, pageNum, consecutiveFailures>>
    /\ UNCHANGED <<indexVars, validatorVars, unitVars, TARGET_PER_TOPIC, candidates,
                   filesFoundOnPage>>

\* ------------------------------------------------------------------------
\* part_002: the strict validator's download loop (one topic)
\* ------------------------------------------------------------------------
MaxTargetCount == 2
MaxLinks == 2
MIN_SIZE_BYTES == 51200

\* A file is abstracted to its size and to where its first '%PDF' is: at
\* offset 0 (start), later within the first 1024 bytes (early), beyond them
\* (late), or nowhere (none).
Files ==
    [size : {MIN_SIZE_BYTES - 1, MIN_SIZE_BYTES, MIN_SIZE_BYTES + 1},
     magic : {"start", "early", "late", "none"}]

Absent == [size |-> -1, magic |-> "none"]

EmptyFile == [size |-> 0, magic |-> "none"]

\* doc_<n>.pdf, and the name under which Chrome saves the download of a link
Names ==
    { <<"doc", n>> : n \in 1..MaxTargetCount }
    \cup { <<"dl", a>> : a \in 1..MaxLinks }

\* fs.readFileSync ignores the options start and end: largeBuffer is the
\* whole file, so '%PDF' is found wherever it is
isRealPDF(file) ==
    IF file = Absent THEN FALSE
    ELSE IF file.size < MIN_SIZE_BYTES THEN FALSE
    ELSE IF file.magic = "start" THEN TRUE
    ELSE file.magic \in {"early", "late"}

\* the candidates of files.find(): readdirSync fixes no order
findNewFile(dir) ==
    { n \in Names : dir[n] # Absent /\ dir[n].size > MIN_SIZE_BYTES }

ValidatorOff ==
    /\ TARGET_COUNT = 1
    /\ uniqueLinks = 0
    /\ vpc = "off"
    /\ validCount = 0
    /\ attemptIndex = 0
    /\ topicDir = [n \in Names |-> Absent]
    /\ counted = <<>>
    /\ methods = <<>>

ValidatorInit ==
    /\ TARGET_COUNT \in 1..MaxTargetCount
    /\ uniqueLinks \in 0..MaxLinks
    /\ vpc = "loop"
    /\ validCount = 0
    /\ attemptIndex = 0
    /\ topicDir = [n \in Names |-> Absent]
    /\ counted = <<>>
    /\ methods = <<>>

DownloadGuard == validCount < TARGET_COUNT /\ attemptIndex < uniqueLinks

\* METHOD 1: await downloadAxios(link, savePath)
DownloadAxios ==
    /\ vpc = "loop"
    /\ DownloadGuard
    /\ methods' = Append(methods,
                         [link |-> attemptIndex + 1, method |-> "axios"])
    /\ \/ \* the request fails: caught inside, the stream is closed and the
          \* file unlinked (or left empty for the moment)
          /\ \E f \in {Absent, EmptyFile} :
                topicDir' = [topicDir EXCEPT ![<<"doc", validCount + 1>>] = f]
          /\ vpc' = "validate"
          /\ UNCHANGED attemptIndex
       \/ \* the body is written to savePath
          /\ \E f \in Files :
                topicDir' = [topicDir EXCEPT ![<<"doc", validCount + 1>>] = f]
          /\ vpc' = "validate"
          /\ UNCHANGED attemptIndex
       \/ \* the writer fails: downloadAxios rejects, catch (e) "Error."
          /\ \E f \in Files \cup {Absent} :
                topicDir' = [topicDir EXCEPT ![<<"doc", validCount + 1>>] = f]
          /\ attemptIndex' = attemptIndex + 1
          /\ vpc' = "loop"
    /\ UNCHANGED <<indexVars, scraperVars, unitVars, TARGET_COUNT, uniqueLinks,
                   validCount, counted>>

\* STRICT VALIDATION where the browser backup runs whatever the verdict
ValidateAlwaysBrowser ==
    /\ vpc = "validate"
    /\ LET savePath == <<"doc", validCount + 1>>
       IN  IF isRealPDF(topicDir[savePath])
           THEN /\ validCount' = validCount + 1
                /\ counted' = Append(counted,
                       [link |-> attemptIndex + 1, method |-> "axios",
                        file |-> topicDir[savePath]])
                /\ vpc' = IF validCount + 1 < TARGET_COUNT
                          THEN "browser" ELSE "loop"
                /\ attemptIndex' = IF validCount + 1 < TARGET_COUNT
                                   THEN attemptIndex ELSE attemptIndex + 1
                /\ UNCHANGED topicDir
           ELSE /\ topicDir' = [topicDir EXCEPT ![savePath] = Absent]
                /\ vpc' = "browser"
                /\ UNCHANGED <<validCount, counted, attemptIndex>>
    /\ UNCHANGED <<indexVars, scraperVars, unitVars, TARGET_COUNT, uniqueLinks,
                   methods>>

\* STRICT VALIDATION of savePath; an invalid file is deleted
Validate ==
    /\ vpc = "validate"
    /\ LET savePath == <<"doc", validCount + 1>>
       IN  IF isRealPDF(topicDir[savePath])
           THEN /\ validCount' = validCount + 1
                /\ counted' = Append(counted,
                       [link |-> attemptIndex + 1, method |-> "axios",
                        file |-> topicDir[savePath]])
                /\ attemptIndex' = attemptIndex + 1
                /\ vpc' = "loop"
                /\ UNCHANGED topicDir
           ELSE /\ topicDir' = [topicDir EXCEPT ![savePath] = Absent]
                /\ vpc' = "browser"
                /\ UNCHANGED <<validCount, counted, attemptIndex>>
    /\ UNCHANGED <<indexVars, scraperVars, unitVars, TARGET_COUNT, uniqueLinks,
                   methods>>

\* METHOD 2: page.goto(link), wait, findNewFile, validate, rename or delete
BrowserBackup ==
    /\ vpc = "browser"
    /\ methods' = Append(methods,
                         [link |-> attemptIndex + 1, method |-> "browser"])
    /\ attemptIndex' = attemptIndex + 1
    /\ vpc' = "loop"
    /\ \E landed \in Files \cup {Absent} :
          LET savePath == <<"doc", validCount + 1>>
              dir == IF landed = Absent THEN topicDir
                     ELSE [topicDir EXCEPT ![<<"dl", attemptIndex + 1>>] = landed]
          IN  \/ \* page.goto throws: catch (e) "Failed."
                 /\ topicDir' = dir
                 /\ UNCHANGED <<validCount, counted>>
              \/ /\ findNewFile(dir) = {}
                 /\ topicDir' = dir
                 /\ UNCHANGED <<validCount, counted>>
              \/ \E browserFile \in findNewFile(dir) :
                    IF isRealPDF(dir[browserFile])
                    THEN /\ topicDir' = [dir EXCEPT ![browserFile] = Absent,
                                                    ![savePath] = dir[browserFile]]
                         /\ validCount' = validCount + 1
                         /\ counted' = Append(counted,
                                [link |-> attemptIndex + 1,
                                 method |-> "browser",
                                 file |-> dir[browserFile]])
                    ELSE /\ topicDir' = [dir EXCEPT ![browserFile] = Absent]
                         /\ UNCHANGED <<validCount, counted>>
    /\ UNCHANGED <<indexVars, scraperVars, unitVars, TARGET_COUNT, uniqueLinks>>

\* the while condition is false: the target is met or the links ran out
DownloadLoopEnds ==
    /\ vpc = "loop"
    /\ ~DownloadGuard
    /\ vpc' = "done"
    /\ UNCHANGED <<indexVars, scraperVars, unitVars, TARGET_COUNT, uniqueLinks,
                   validCount, attemptIndex, topicDir, counted, methods>>

\* ------------------------------------------------------------------------
\* stealth_search.js: stealthSearch and the engine functions
\* ------------------------------------------------------------------------
MaxStealthLinks == 2
maxPages == 3

\* searchFunctions, in the order of the array
EngineNames ==
    <<"DDG HTML", "DDG Lite", "Startpage", "Brave", "Mojeek", "Yandex">>

\* searchStartpage, searchBrave, searchMojeek and searchYandex scroll and
\* extract a second time before they paginate; the DuckDuckGo functions
\* do not
EngineScrolls(n) == n >= 3

\* extractLinks(): the hrefs of one result page, which may repeat
PageLinks == AnyResults

EngineIdle ==
    /\ engineMaxLinks = 0
    /\ engineLinks = <<>>
    /\ enginePageNum = 1
    /\ epc = "idle"
    /\ clicks = 0
    /\ nextButton = FALSE

StealthOff ==
    /\ sMaxLinks = 0
    /\ links = <<>>
    /\ engine = 1
    /\ stpc = "off"
    /\ contextOpen = FALSE
    /\ contextCloses = 0
    /\ queries = <<>>
    /\ pagesOpen = 0
    /\ EngineIdle

StealthInit ==
    /\ sMaxLinks \in 0..MaxStealthLinks
    /\ links = <<>>
    /\ engine = 1
    /\ stpc = "start"
    /\ contextOpen = FALSE
    /\ contextCloses = 0
    /\ queries = <<>>
    /\ pagesOpen = 0
    /\ EngineIdle

stealthFrame ==
    <<indexVars, scraperVars, validatorVars, scrollVars, pdfVars, minerVars>>
stealthLoop == <<sMaxLinks, links, engine, stpc, contextOpen, contextCloses,
                 queries>>

\* const context = await createStealthContext(browser)
CreateContext ==
    /\ stpc = "start"
    /\ contextOpen' = TRUE
    /\ stpc' = "loop"
    /\ UNCHANGED <<stealthFrame, sMaxLinks, links, engine, contextCloses,
                   queries, engineMaxLinks, engineLinks, enginePageNum, epc,
                   pagesOpen, clicks, nextButton>>

\* mutant: every engine is asked for the whole of maxLinks
EngineCallFullTarget ==
    /\ stpc = "loop"
    /\ engine <= Len(EngineNames)
    /\ ~(Len(links) >= sMaxLinks)
    /\ queries' = Append(queries, [name |-> EngineNames[engine],
                                   maxLinks |-> sMaxLinks,
                                   had |-> Len(links),
                                   outcome |-> "pending"])
    /\ engineMaxLinks' = sMaxLinks
    /\ engineLinks' = <<>>
    /\ enginePageNum' = 1
    /\ clicks' = 0
    /\ nextButton' = FALSE
    /\ epc' = "newPage"
    /\ stpc' = "await"
    /\ UNCHANGED <<stealthFrame, sMaxLinks, links, engine, contextOpen,
                   contextCloses, pagesOpen>>

\* the loop body starts: fn(query, maxLinks - links.length, context)
EngineCall ==
    /\ stpc = "loop"
    /\ engine <= Len(EngineNames)
    /\ ~(Len(links) >= sMaxLinks)
    /\ queries' = Append(queries, [name |-> EngineNames[engine],
                                   maxLinks |-> sMaxLinks - Len(links),
                                   had |-> Len(links),
                                   outcome |-> "pending"])
    /\ engineMaxLinks' = sMaxLinks - Len(links)
    /\ engineLinks' = <<>>
    /\ enginePageNum' = 1
    /\ clicks' = 0
    /\ nextButton' = FALSE
    /\ epc' = "newPage"
    /\ stpc' = "await"
    /\ UNCHANGED <<stealthFrame, sMaxLinks, links, engine, contextOpen,
                   contextCloses, pagesOpen>>

\* mutant: an engine that rejects ends the loop
EngineNewPageAborts ==
    /\ epc = "newPage"
    /\ \/ /\ pagesOpen' = pagesOpen + 1
          /\ epc' = "goto"
          /\ UNCHANGED <<engine, stpc, queries>>
       \/ /\ epc' = "idle"
          /\ queries' = [queries EXCEPT ![engine].outcome = "threw"]
          /\ engine' = Len(EngineNames) + 1
          /\ stpc' = "loop"
          /\ UNCHANGED pagesOpen
    /\ UNCHANGED <<stealthFrame, sMaxLinks, links, contextOpen,
                   contextCloses, engineMaxLinks, engineLinks,
                   enginePageNum, clicks, nextButton>>

\* const page = await context.newPage(), outside the engine's try: when it
\* rejects, the engine function rejects, stealthSearch logs the error in
\* its catch and goes on to the delay and the next engine
EngineNewPage ==
    /\ epc = "newPage"
    /\ \/ /\ pagesOpen' = pagesOpen + 1
          /\ epc' = "goto"
          /\ UNCHANGED <<engine, stpc, queries>>
       \/ /\ epc' = "idle"
          /\ queries' = [queries EXCEPT ![engine].outcome = "threw"]
          /\ engine' = engine + 1
          /\ stpc' = "loop"
          /\ UNCHANGED pagesOpen
    /\ UNCHANGED <<stealthFrame, sMaxLinks, links, contextOpen,
                   contextCloses, engineMaxLinks, engineLinks,
                   enginePageNum, clicks, nextButton>>

\* page.goto, humanize, the first extractLinks(); an exception anywhere in
\* the try block is caught and leads to page.close()
EngineFirstPage ==
    /\ epc = "goto"
    /\ \/ \E ls \in PageLinks :
             /\ engineLinks' = PushUnique(engineLinks, ls)
             /\ epc' = IF EngineScrolls(engine) THEN "scroll" ELSE "paginate"
       \/ /\ epc' = "closePage"
          /\ UNCHANGED engineLinks
    /\ UNCHANGED <<stealthFrame, stealthLoop, engineMaxLinks, enginePageNum,
                   pagesOpen, clicks, nextButton>>

\* await scrollForMoreResults(page, ...), then extractLinks() again
EngineAfterScroll ==
    /\ epc = "scroll"
    /\ \/ \E ls \in PageLinks :
             /\ engineLinks' = PushUnique(engineLinks, ls)
             /\ epc' = "paginate"
       \/ /\ epc' = "closePage"
          /\ UNCHANGED engineLinks
    /\ UNCHANGED <<stealthFrame, stealthLoop, engineMaxLinks, enginePageNum,
                   pagesOpen, clicks, nextButton>>

\* mutant: the page limit is tested with <=
EnginePaginateOffByOne ==
    /\ epc = "paginate"
    /\ IF Len(engineLinks) < engineMaxLinks /\ enginePageNum <= maxPages
       THEN \/ /\ nextButton' = FALSE
               /\ epc' = "closePage"
               /\ UNCHANGED clicks
            \/ /\ nextButton' = TRUE
               /\ clicks' = clicks + 1
               /\ epc' = "clicked"
       ELSE /\ epc' = "closePage"
            /\ UNCHANGED <<clicks, nextButton>>
    /\ UNCHANGED <<stealthFrame, stealthLoop, engineMaxLinks, engineLinks,
                   enginePageNum, pagesOpen>>

\* while (links.length < maxLinks && pageNum < maxPages): look for the Next
\* control, break without it (or on an exception), click it otherwise
EnginePaginate ==
    /\ epc = "paginate"
    /\ IF Len(engineLinks) < engineMaxLinks /\ enginePageNum < maxPages
       THEN \/ /\ nextButton' = FALSE
               /\ epc' = "closePage"
               /\ UNCHANGED clicks
            \/ /\ nextButton' = TRUE
               /\ clicks' = clicks + 1
               /\ epc' = "clicked"
       ELSE /\ epc' = "closePage"
            /\ UNCHANGED <<clicks, nextButton>>
    /\ UNCHANGED <<stealthFrame, stealthLoop, engineMaxLinks, engineLinks,
                   enginePageNum, pagesOpen>>

\* the next page has loaded: extractLinks(), merge, pageNum++
EngineNextPage ==
    /\ epc = "clicked"
    /\ \/ \E ls \in PageLinks :
             /\ engineLinks' = PushUnique(engineLinks, ls)
             /\ enginePageNum' = enginePageNum + 1
             /\ epc' = "paginate"
       \/ /\ epc' = "closePage"
          /\ UNCHANGED <<engineLinks, enginePageNum>>
    /\ UNCHANGED <<stealthFrame, stealthLoop, engineMaxLinks, pagesOpen,
                   clicks, nextButton>>

\* await page.close(); return links; stealthSearch merges the results and
\* waits before the next engine
EngineReturn ==
    /\ epc = "closePage"
    /\ pagesOpen' = pagesOpen - 1
    /\ links' = PushUnique(links, engineLinks)
    /\ queries' = [queries EXCEPT ![engine].outcome =
                      IF Len(engineLinks) = 0 THEN "empty" ELSE "links"]
    /\ epc' = "idle"
    /\ engine' = engine + 1
    /\ stpc' = "loop"
    /\ UNCHANGED <<stealthFrame, sMaxLinks, contextOpen, contextCloses,
                   engineMaxLinks, engineLinks, enginePageNum,
                   clicks, nextButton>>

\* the for loop is over (break, or no engine left): await context.close()
CloseContext ==
    /\ stpc = "loop"
    /\ engine > Len(EngineNames) \/ Len(links) >= sMaxLinks
    /\ contextOpen' = FALSE
    /\ contextCloses' = contextCloses + 1
    /\ stpc' = "returned"
    /\ UNCHANGED <<stealthFrame, sMaxLinks, links, engine, queries,
                   engineMaxLinks, engineLinks, enginePageNum, epc,
                   pagesOpen, clicks, nextButton>>

\* ------------------------------------------------------------------------
\* stealth_search.js: scrollForMoreResults
\* ------------------------------------------------------------------------
MaxScrollCount == 4
MaxHeight == 3

\* document.body.scrollHeight
Heights == 1..MaxHeight

ScrollOff ==
    /\ scrollCount = 0
    /\ scrollI = 0
    /\ bodyHeight = 1
    /\ previousHeight = 0
    /\ newHeight = 0
    /\ scrolls = 0
    /\ scpc = "off"

ScrollInit ==
    /\ scrollCount \in 0..MaxScrollCount
    /\ scrollI = 0
    /\ bodyHeight \in Heights
    /\ previousHeight = 0
    /\ newHeight = 0
    /\ scrolls = 0
    /\ scpc = "loop"

scrollFrame ==
    <<indexVars, scraperVars, validatorVars, stealthVars, pdfVars, minerVars>>

\* mutant: the loop breaks on an unchanged height after the first scroll too
ScrollOnceNoMinimum ==
    /\ scpc = "loop"
    /\ scrollI < scrollCount
    /\ previousHeight' = bodyHeight
    /\ scrolls' = scrolls + 1
    /\ \E h \in Heights :
          /\ bodyHeight' = h
          /\ newHeight' = h
          /\ IF h = bodyHeight
             THEN scpc' = "done" /\ scrollI' = scrollI
             ELSE scpc' = "loop" /\ scrollI' = scrollI + 1
    /\ UNCHANGED <<scrollFrame, scrollCount>>

\* one iteration: read the height, scroll to the bottom, wait, read the
\* height again, move the mouse, break or i++
ScrollOnce ==
    /\ scpc = "loop"
    /\ scrollI < scrollCount
    /\ previousHeight' = bodyHeight
    /\ scrolls' = scrolls + 1
    /\ \E h \in Heights :
          /\ bodyHeight' = h
          /\ newHeight' = h
          /\ IF h = bodyHeight /\ scrollI >= 1
             THEN scpc' = "done" /\ scrollI' = scrollI
             ELSE scpc' = "loop" /\ scrollI' = scrollI + 1
    /\ UNCHANGED <<scrollFrame, scrollCount>>

\* a call on the page rejects (the page is gone): the exception leaves the
\* function, before or after the scroll of this iteration
ScrollThrows ==
    /\ scpc = "loop"
    /\ scrollI < scrollCount
    /\ scpc' = "threw"
    /\ \/ UNCHANGED <<scrolls, bodyHeight>>
       \/ /\ scrolls' = scrolls + 1
          /\ bodyHeight' \in Heights
    /\ UNCHANGED <<scrollFrame, scrollCount, scrollI, previousHeight,
                   newHeight>>

\* i < scrollCount is false
ScrollEnds ==
    /\ scpc = "loop"
    /\ ~(scrollI < scrollCount)
    /\ scpc' = "done"
    /\ UNCHANGED <<scrollFrame, scrollCount, scrollI, bodyHeight,
                   previousHeight, newHeight, scrolls>>

\* ------------------------------------------------------------------------
\* index.js: processPDF applied to one response
\* ------------------------------------------------------------------------
PdfOff ==
    /\ pdfUrl = ""
    /\ pdfResponse = NoPdfResponse
    /\ pdfReturn = Null
    /\ ppc = "off"

PdfInit ==
    /\ pdfUrl \in LinkUniverse
    /\ pdfResponse \in PdfResponses
    /\ pdfReturn = Null
    /\ ppc = "call"

ApplyProcessPDF ==
    /\ ppc = "call"
    /\ pdfReturn' = processPDF(pdfUrl, pdfResponse, 1)
    /\ ppc' = "returned"
    /\ UNCHANGED <<indexVars, scraperVars, validatorVars, stealthVars,
                   scrollVars, minerVars, pdfUrl, pdfResponse>>

\* ------------------------------------------------------------------------
\* part_001, the Puppeteer text miner: processLink(link, browser)
\* ------------------------------------------------------------------------
\* what the network answers for a link: whether browser.newPage and
\* page.goto succeed, document.contentType, the length of the article text
\* Readability returns (-1: no article), and for processPDF whether axios
\* or pdf-parse fail and the length of the text
MinerResponses ==
    [newPageFails : BOOLEAN, gotoFails : BOOLEAN,
     contentType : {"application/pdf", "text/html"},
     articleLength : {-1, 200, 201},
     pdfFails : BOOLEAN, pdfTextLength : {200, 201}]

\* processPDF(url) of part_001: its own try/catch, never rejects
minerProcessPDF(response) ==
    IF response.pdfFails THEN "null"
    ELSE IF response.pdfTextLength > 200 THEN "PDF" ELSE "null"

MinerOff ==
    /\ mLink = ""
    /\ mResponse = [newPageFails |-> FALSE, gotoFails |-> FALSE,
                    contentType |-> "text/html", articleLength |-> -1,
                    pdfFails |-> FALSE, pdfTextLength |-> 200]
    /\ mpc = "off"
    /\ mPage = "null"
    /\ pagesOpened = 0
    /\ closeCalls = 0
    /\ mResult = "pending"

MinerInit ==
    /\ mLink \in LinkUniverse
    /\ mResponse \in MinerResponses
    /\ mpc = "start"
    /\ mPage = "null"
    /\ pagesOpened = 0
    /\ closeCalls = 0
    /\ mResult = "pending"

minerFrame ==
    <<indexVars, scraperVars, validatorVars, stealthVars, scrollVars,
      pdfVars, mLink, mResponse>>

\* let page = null; the .pdf test; page = await browser.newPage()
MinerStart ==
    /\ mpc = "start"
    /\ IF isDefinitePdf(mLink)
       THEN /\ mResult' = minerProcessPDF(mResponse)
            /\ mpc' = "finally"
            /\ UNCHANGED <<mPage, pagesOpened>>
       ELSE IF mResponse.newPageFails
            THEN /\ mResult' = "null"
                 /\ mpc' = "finally"
                 /\ UNCHANGED <<mPage, pagesOpened>>
            ELSE /\ mPage' = "open"
                 /\ pagesOpened' = pagesOpened + 1
                 /\ mpc' = "goto"
                 /\ UNCHANGED mResult
    /\ UNCHANGED <<minerFrame, closeCalls>>

\* page.goto; document.contentType; a hidden PDF closes the page and goes
\* to processPDF, anything else is read with Readability
MinerGoto ==
    /\ mpc = "goto"
    /\ IF mResponse.gotoFails
       THEN /\ mResult' = "null"
            /\ mpc' = "finally"
            /\ UNCHANGED <<mPage, closeCalls>>
       ELSE IF mResponse.contentType = "application/pdf"
            THEN /\ closeCalls' = closeCalls + 1
                 /\ mPage' = "closed"
                 /\ mpc' = "hiddenPdf"
                 /\ UNCHANGED mResult
            ELSE /\ mResult' = IF mResponse.articleLength > 200
                               THEN "WEB" ELSE "null"
                 /\ mpc' = "finally"
                 /\ UNCHANGED <<mPage, closeCalls>>
    /\ UNCHANGED <<minerFrame, pagesOpened>>

\* return await processPDF(link) of the hidden-PDF branch
MinerHiddenPdf ==
    /\ mpc = "hiddenPdf"
    /\ mResult' = minerProcessPDF(mResponse)
    /\ mpc' = "finally"
    /\ UNCHANGED <<minerFrame, mPage, pagesOpened, closeCalls>>

\* finally { if (page) await page.close(); }: page is still the object
\* when it was closed before, and closing a closed page either does nothing
\* or rejects, depending on the Puppeteer version
MinerFinally ==
    /\ mpc = "finally"
    /\ IF mPage = "null"
       THEN /\ mpc' = "returned"
            /\ UNCHANGED <<mPage, closeCalls, mResult>>
       ELSE /\ closeCalls' = closeCalls + 1
            /\ mPage' = "closed"
            /\ IF mPage = "open"
               THEN mpc' = "returned" /\ UNCHANGED mResult
               ELSE \/ mpc' = "returned" /\ UNCHANGED mResult
                    \/ mpc' = "rejected" /\ mResult' = "rejected"
    /\ UNCHANGED <<minerFrame, pagesOpened>>

UnitsOff == StealthOff /\ ScrollOff /\ PdfOff /\ MinerOff

TaskStep ==
    \E k \in 1..Len(linksArray) :
        PdfSettle(k) \/ NewContext(k) \/ WebpageReturns(k) \/ ContextClose(k)

Harvest ==
    \/ HarvestSemanticScholar \/ HarvestArXiv \/ HarvestGoogleScholar
    \/ HarvestGooglePDF \/ HarvestBrowserPdf
    \/ HarvestWikipedia \/ HarvestRSS \/ HarvestBrowser
    \/ HarvestComplete

Next ==
    \/ Harvest
    \/ NoLinksCloseBrowser \/ ProcessExit
    \/ StartChunk \/ TaskStep \/ ResolveChunk
    \/ FlushVolume \/ FinalVolume \/ JobComplete

Init == IndexInit /\ ScraperOff /\ ValidatorOff /\ UnitsOff

Spec == Init /\ [][Next]_vars

FairSpec == Spec /\ WF_vars(Next)

NextThrow ==
    \/ Next
    \/ \E k \in 1..Len(linksArray) : WebpageThrows(k)
    \/ ChunkRejects

SpecThrow == Init /\ [][NextThrow]_vars

InitScraper == IndexOff /\ ScraperInit /\ ValidatorOff /\ UnitsOff

NextScraper ==
    \/ PageError \/ NoResults \/ PageResults \/ TryLink \/ EndOfPage
    \/ LoopStops \/ NextTopic

SpecScraper == InitScraper /\ [][NextScraper]_vars /\ WF_vars(NextScraper)

InitValidator == IndexOff /\ ScraperOff /\ ValidatorInit /\ UnitsOff

NextValidator ==
    \/ DownloadAxios \/ Validate \/ BrowserBackup \/ DownloadLoopEnds

SpecValidator == InitValidator /\ [][NextValidator]_vars

ScriptsOff == IndexOff /\ ScraperOff /\ ValidatorOff

InitStealth == ScriptsOff /\ StealthInit /\ ScrollOff /\ PdfOff /\ MinerOff

NextStealth ==
    \/ CreateContext \/ EngineCall \/ EngineNewPage \/ EngineFirstPage
    \/ EngineAfterScroll \/ EnginePaginate \/ EngineNextPage
    \/ EngineReturn \/ CloseContext

SpecStealth == InitStealth /\ [][NextStealth]_vars

\* every await of stealthSearch settles (the page calls have timeouts)
FairSpecStealth == SpecStealth /\ WF_vars(NextStealth)

InitScroll == ScriptsOff /\ StealthOff /\ ScrollInit /\ PdfOff /\ MinerOff

NextScroll == ScrollOnce \/ ScrollThrows \/ ScrollEnds

SpecScroll == InitScroll /\ [][NextScroll]_vars

InitPdf == ScriptsOff /\ StealthOff /\ ScrollOff /\ PdfInit /\ MinerOff

NextPdf == ApplyProcessPDF

SpecPdf == InitPdf /\ [][NextPdf]_vars

InitMiner == ScriptsOff /\ StealthOff /\ ScrollOff /\ PdfOff /\ MinerInit

NextMiner == MinerStart \/ MinerGoto \/ MinerHiddenPdf \/ MinerFinally

SpecMiner == InitMiner /\ [][NextMiner]_vars

\* ------------------------------------------------------------------------
\* Properties of index.js
\* ------------------------------------------------------------------------
DocsOfVolumes ==
    UNION { { <<v, j>> : j \in 1..Len(volumes[v].sources) } :
                v \in 1..Len(volumes) }

\* C1: every volume written holds at most DOCS_PER_FILE documents, and every
\* volume except the last holds exactly DOCS_PER_FILE documents.
C1_VolumeSize ==
    \A v \in 1..Len(volumes) :
        /\ Len(volumes[v].sources) <= DOCS_PER_FILE
        /\ (v < Len(volumes) => Len(volumes[v].sources) = DOCS_PER_FILE)

\* C2: at JOB COMPLETE every document whose extraction succeeded is in
\* exactly one volume, and the volumes hold nothing else.
C2_EveryDocInOneVolume ==
    pc = "done" =>
        /\ \A k \in 1..Len(linksArray) :
              tasks[k].res # Null =>
                  Cardinality({ d \in DocsOfVolumes :
                      volumes[d[1]].sources[d[2]] = tasks[k].res }) = 1
        /\ \A d \in DocsOfVolumes :
              \E k \in 1..Len(linksArray) :
                  /\ volumes[d[1]].sources[d[2]] = tasks[k].res
                  /\ tasks[k].res # Null

C2_Witness ==
    /\ pc = "done"
    /\ Len(volumes) >= 2
    /\ \E k \in 1..Len(linksArray) : tasks[k].res = Null
    /\ \E k \in 1..Len(linksArray) : tasks[k].res # Null

PdfFailure(r) ==
    \/ r.error
    \/ r.parseError
    \/ (~r.ctPdf /\ r.len < 50000)
    \/ r.len < 10000
    \/ countWords(r.text) < MIN_WORDS

WebFailure(r) ==
    \/ r.kind \in {"error", "noResponse"}
    \/ (r.kind = "pdf" /\ PdfFailure(r.pdf))
    \/ (r.kind = "html" /\ (r.text.marker \/ countWords(r.text) < MIN_WORDS))

ChunkIndex(k) == (k - 1) \div CONCURRENCY

\* C4: at most CONCURRENCY processLink calls are in flight, and no link of a
\* chunk has started while a link of an earlier chunk has not settled.
C4_BoundedBatching ==
    /\ Cardinality({ k \in 1..Len(linksArray) : InFlight(k) }) <= CONCURRENCY
    /\ \A k, m \in 1..Len(linksArray) :
          (tasks[k].st # "idle" /\ ChunkIndex(m) < ChunkIndex(k))
              => tasks[m].st = "settled"

C4_Witness ==
    /\ Len(linksArray) > CONCURRENCY
    /\ InFlight(CONCURRENCY + 1)
    /\ \A m \in 1..CONCURRENCY : tasks[m].st = "settled"

\* C5: while a processLink call of the chunk is in flight, no step changes
\* processedCount, successCount, currentVolume or currentSources.
C5_CountersFrame ==
    [][(\E k \in 1..Len(linksArray) : InFlight(k)) => UNCHANGED counters]_vars

C5_Witness ==
    /\ pc = "await"
    /\ Len(linksArray) >= 2
    /\ tasks[1].st = "settled"
    /\ tasks[1].res # Null
    /\ InFlight(2)
    /\ successCount = 0
    /\ currentSources = <<>>

DocsAdded ==
    { currentSources[j] : j \in 1..Len(currentSources) }
    \cup { volumes[d[1]].sources[d[2]] : d \in DocsOfVolumes }

\* C8: when CONTENT_TYPE is 'pdfs', every document added to a volume has
\* type PDF.
C8_PdfModeOnlyPdf ==
    CONTENT_TYPE = "pdfs" => \A doc \in DocsAdded : doc.type = "PDF"

\* ------------------------------------------------------------------------
\* Properties of part_002 and scraper.js
\* ------------------------------------------------------------------------
StrictlyValid(file) == file.size > MIN_SIZE_BYTES /\ file.magic = "start"

\* C9: every file counted towards validCount is strictly larger than 50KB
\* and begins with %PDF; a file failing either condition is never counted
\* and does not stay in the topic directory once it was validated.
C9_StrictValidation ==
    /\ \A c \in 1..Len(counted) : StrictlyValid(counted[c].file)
    /\ Len(counted) = validCount
    /\ \A n \in 1..MaxTargetCount :
          (n <= validCount /\ topicDir[<<"doc", n>>] # Absent)
              => StrictlyValid(topicDir[<<"doc", n>>])

C11_MethodsSequenced ==
    /\ \A j \in 1..Len(methods) :
          /\ (\A h \in 1..(j - 1) : methods[h].link # methods[j].link)
                => methods[j].method = "axios"
          /\ methods[j].method = "browser"
                => /\ j > 1
                   /\ methods[j - 1] =
                         [link |-> methods[j].link, method |-> "axios"]
                   /\ \A c \in 1..Len(counted) :
                         counted[c].link = methods[j].link
                            => counted[c].method = "browser"
          /\ methods[j].method = "axios"
                => \A h \in 1..(j - 1) : methods[h].link < methods[j].link
    /\ \A a, b \in 1..Len(counted) :
          counted[a].link = counted[b].link => a = b
    /\ validCount = Len(counted)
    /\ vpc = "browser" => topicDir[<<"doc", validCount + 1>>] = Absent

\* two links were counted, the first through the browser backup after its
\* axios download failed validation, the second through axios
C11_Witness ==
    /\ Len(counted) = 2
    /\ counted[1].method = "browser"
    /\ counted[2].method = "axios"
    /\ Len(methods) = 3

\* ------------------------------------------------------------------------
\* Further properties of index.js
\* ------------------------------------------------------------------------

\* C12: the volume numbers passed to generateResearchPDF in one run are
\* 1, 2, ..., k in this order, each used once: the v-th volume written has
\* number v, and the next number to use is beyond all the numbers used.
C12_VolumeNumbers ==
    /\ \A v \in 1..Len(volumes) : volumes[v].volNum = v
    /\ pc \in {"loop", "await", "flush"} => currentVolume = Len(volumes) + 1

\* two volumes were written inside the loop and a third number is ready
C12_Witness ==
    /\ Len(volumes) = 2
    /\ volumes[2].volNum = 2
    /\ currentVolume = 3

\* C13: every document added to a volume has a wordCount field of at least
\* MIN_WORDS, for PDF and web documents alike.
C13_MinWordCount ==
    \A doc \in DocsAdded : doc.wordCount >= MIN_WORDS

\* C14: at the end of the harvest phase collectedLinks contains no URL
\* twice, in both content modes and whatever lists the sources return.
C14_UniqueLinks ==
    (pc = "harvest" /\ strategy = LastStrategy + 1)
        => NoDuplicates(collectedLinks)

\* C15: a harvest strategy after the first is invoked only while
\* collectedLinks.length < TARGET_DOCS, and in every state of the processing
\* phase successCount <= processedCount <= linksArray.length <= TARGET_DOCS.
C15_TargetBounds ==
    /\ (pc = "search" /\ strategy > 1) => Len(collectedLinks) < TARGET_DOCS
    /\ pc \in {"loop", "await", "flush", "close", "done"} =>
          /\ successCount <= processedCount
          /\ processedCount <= Len(linksArray)
          /\ Len(linksArray) <= TARGET_DOCS

\* a later strategy, invoked below the target, brought the harvest beyond
\* it; the run processed TARGET_DOCS links only, one of them in vain
C15_Witness ==
    /\ pc = "done"
    /\ TARGET_DOCS = 3
    /\ Len(collectedLinks) = 4
    /\ processedCount = TARGET_DOCS
    /\ successCount < processedCount

\* ------------------------------------------------------------------------
\* Properties of stealth_search.js
\* ------------------------------------------------------------------------

\* C16: stealthSearch tries the engines in the order DDG HTML, DDG Lite,
\* Startpage, Brave, Mojeek, Yandex; each is asked for maxLinks minus the
\* number of links collected when it is called, and none is called once
\* links.length >= maxLinks.  The search ends early only on that condition.
C16_EngineOrder ==
    /\ Len(queries) <= Len(EngineNames)
    /\ \A j \in 1..Len(queries) :
          /\ queries[j].name = EngineNames[j]
          /\ queries[j].maxLinks = sMaxLinks - queries[j].had
          /\ queries[j].had < sMaxLinks
    /\ stpc = "await" =>
          /\ engine = Len(queries)
          /\ engineMaxLinks = sMaxLinks - Len(links)
          /\ queries[engine].had = Len(links)
    /\ (stpc = "returned" /\ Len(queries) < Len(EngineNames))
          => Len(links) >= sMaxLinks

\* all six engines were queried, the later ones for fewer links
C16_Witness ==
    /\ stpc = "returned"
    /\ Len(queries) = Len(EngineNames)
    /\ queries[6].maxLinks < queries[1].maxLinks

\* C17: an engine function clicks Next at most maxPages - 1 = 2 times, so
\* it visits at most 3 result pages; it clicks only while it has fewer than
\* maxLinks links and a Next control was found; its links never contain a
\* URL twice.
C17_Pagination ==
    /\ clicks <= maxPages - 1
    /\ enginePageNum <= maxPages
    /\ epc = "paginate" => enginePageNum = clicks + 1
    /\ epc = "clicked" =>
          /\ Len(engineLinks) < engineMaxLinks
          /\ enginePageNum < maxPages
          /\ nextButton
    /\ NoDuplicates(engineLinks)

\* an engine with results returns after two clicks, stopped by the page
\* limit and not by the number of links
C17_Witness ==
    /\ epc = "closePage"
    /\ clicks = 2
    /\ enginePageNum = maxPages
    /\ Len(engineLinks) > 0
    /\ Len(engineLinks) < engineMaxLinks

\* C18: scrollForMoreResults scrolls at most scrollCount times; it returns
\* before scrollCount scrolls only after a scroll, the second or a later
\* one, that left the page height unchanged; and it does not go on after
\* such a scroll.
C18_ScrollLoop ==
    /\ scrolls <= scrollCount
    /\ scpc = "loop" => scrolls = scrollI
    /\ (scpc = "done" /\ scrolls < scrollCount)
          => scrolls >= 2 /\ newHeight = previousHeight
    /\ (scpc = "loop" /\ scrolls >= 2) => newHeight # previousHeight

\* the loop ended after the second of at least three scrolls
C18_Witness ==
    /\ scpc = "done"
    /\ scrolls = 2
    /\ scrollCount >= 3
    /\ newHeight = previousHeight

\* ------------------------------------------------------------------------
\* Properties of processPDF (index.js) and of processLink (part_001)
\* ------------------------------------------------------------------------
MeetsPdfConditions(response) ==
    /\ ~response.error
    /\ ~response.parseError
    /\ response.len >= 10000
    /\ response.ctPdf \/ response.len >= 50000
    /\ countWords(response.text) >= MIN_WORDS

\* C19: processPDF returns a document only if the body has at least 10000
\* bytes, the Content-Type contains 'pdf' or the body has at least 50000
\* bytes, and the text has at least MIN_WORDS words; otherwise, and when
\* axios or pdf-parse throw, it returns null.
C19_ProcessPDF ==
    ppc = "returned" =>
        /\ pdfReturn # Null => MeetsPdfConditions(pdfResponse)
        /\ ~MeetsPdfConditions(pdfResponse) => pdfReturn = Null
        /\ pdfReturn # Null => pdfReturn.type = "PDF" /\ pdfReturn.url = pdfUrl

\* a body of 50000 bytes without a PDF Content-Type gives a document
C19_Witness ==
    /\ ppc = "returned"
    /\ pdfReturn # Null
    /\ ~pdfResponse.ctPdf
    /\ pdfResponse.len = 50000

\* C20: each page that processLink opens is closed exactly once on every
\* path.
C20_PageClosedOnce ==
    /\ closeCalls <= pagesOpened
    /\ mpc \in {"returned", "rejected"} => closeCalls = pagesOpened

\* an engine failed: it rejected or it returned no link
EngineFailed(j) == queries[j].outcome \in {"threw", "empty"}

\* C21: an engine that throws or returns nothing does not abort
\* stealthSearch.  The engine after a failed one is the next to be queried,
\* stealthSearch returns, and when it does every failed engine but the last
\* of the list was followed by its successor; the context created at the
\* start stays open during the search and context.close() is called exactly
\* once, before the return.
C21_FailuresDoNotAbort ==
    /\ [](\A j \in 1..Len(queries) :
             (EngineFailed(j) /\ j < Len(EngineNames)) =>
                 \/ Len(queries) > j
                 \/ (stpc = "loop" /\ engine = j + 1
                        /\ Len(links) < sMaxLinks))
    /\ [](stpc \in {"loop", "await"} => contextOpen /\ contextCloses = 0)
    /\ [](stpc = "returned" => ~contextOpen /\ contextCloses = 1)
    /\ [](stpc = "returned" => pagesOpen = 0)
    /\ <>(stpc = "returned")

\* the first engine threw, the second found nothing, a later one found
\* links, and the search returned with the context closed
C21_Witness ==
    /\ stpc = "returned"
    /\ Len(queries) >= 3
    /\ queries[1].outcome = "threw"
    /\ queries[2].outcome = "empty"
    /\ Len(links) > 0
    /\ contextCloses = 1

====
